---------------------------- MODULE Spec2Model ----------------------------
(***************************************************************************)
(* OxideDock: a dock overlay for Windows.                                  *)
(*                                                                         *)
(* Two programs of the repository are modelled.                            *)
(*   - The native dock (src/src/window.rs): startup in run, the layout     *)
(*     solver calc_dock_layout and the window procedure wndproc.           *)
(*   - The Tauri dock (src/src-tauri/src/lib.rs): set_dock_hidden,         *)
(*     update_dock_position, register_appbar / unregister_appbar and the   *)
(*     window-event handler installed in run.                              *)
(*                                                                         *)
(* Numbers.  The code computes the layout in f32.  Here a length is an     *)
(* integer count of 1/(2*ONE) pixel and a scale factor an integer count of *)
(* 1/ONE, so that additions, the products scale * ICON_SIZE and the        *)
(* halving in bar_x are exact.  The only rounded step is exp, see ExpNeg.  *)
(***************************************************************************)
EXTENDS Integers, Sequences, FiniteSets, TLC

VARIABLES
    \* ---- native dock, src/src/window.rs (AppState and what run/wndproc touch)
    n_pc,              \* position of run: "init", "loop" (message loop), "quit"
    icons,             \* AppState.icons: TRUE = Some(SystemIcon), FALSE = None
    win_width,         \* AppState.win_width (pixels)
    base_x_positions,  \* AppState.base_x_positions
    icon_visuals,      \* AppState.icon_visuals: the Offset set on each visual at startup
    scale_animations,  \* AppState.scale_animations: key frame at 1.0 of each slot
    offset_animations, \* AppState.offset_animations: key frame at 1.0 of each slot
    bg_bar_visual,     \* AppState.bg_bar_visual: its size and offset
    visual_animations, \* per icon visual, the animations started on Scale and Offset
    taskbar_hwnd,      \* AppState.taskbar_hwnd: TRUE = Some(handle)
    n_taskbar,         \* the shell's taskbar window: "absent", "visible", "hidden"
    tme_armed,         \* a TME_LEAVE request is pending
    last_msg,          \* the last pointer message handled by wndproc
    quit_posted,       \* PostQuitMessage was called
    window_destroyed,  \* wndproc has handled WM_DESTROY
    last_click,        \* the slot under the pointer when WM_LBUTTONUP was the last message, else 0
    launch_requests,   \* the slots whose program the dock asked to start, in order
    \* ---- the layout solver applied to drawn inputs
    lay_in,            \* the arguments of the last call of calc_dock_layout
    lay_out,           \* what it returned
    \* ---- Tauri dock, src/src-tauri/src/lib.rs
    t_pc,              \* "init" (before setup), "running", "destroyed"
    is_hidden,         \* AppState.is_hidden
    monitor,           \* what window.current_monitor() returns now
    win_size,          \* the size last given to window.set_size
    win_pos,           \* the position last given to window.set_position
    appbar,            \* the shell's side: live registrations, edge and rectangle
    shell_log,         \* the SHAppBarMessage calls made so far, in order
    t_taskbar,         \* the shell's taskbar window: "absent", "visible", "hidden"
    last_update,       \* what the last update_dock_position did
    before_hide,       \* the window and reservation when the dock was last hidden
    \* ---- the state lock (STATE in window.rs, the managed Mutex<AppState> in lib.rs)
    ui_prog,           \* the program whose thread is followed: "native", "tauri", "none"
    ui_stack,          \* the handler activations on the thread, the innermost last
    state_lock,        \* 0: the mutex is free; d: the activation at depth d holds it
    lock_wait,         \* the innermost activation is in lock() on a mutex its thread holds
    \* ---- Tauri dock, handlers on two threads
    threads            \* per thread, the handler it runs and the step it is at

nativeVars == <<n_pc, icons, win_width, base_x_positions, icon_visuals,
                scale_animations, offset_animations, bg_bar_visual,
                visual_animations,
                taskbar_hwnd, n_taskbar, tme_armed, last_msg, quit_posted, window_destroyed,
                last_click, launch_requests>>
layoutVars == <<lay_in, lay_out>>
tauriVars  == <<t_pc, is_hidden, monitor, win_size, win_pos, appbar,
                shell_log, t_taskbar, last_update, before_hide>>
lockVars   == <<ui_prog, ui_stack, state_lock, lock_wait>>
raceVars   == <<threads>>
vars == <<nativeVars, layoutVars, tauriVars, lockVars, raceVars>>

-----------------------------------------------------------------------------
(* Bounds of the model *)

MaxIcons == 5         \* shortcuts in the configuration
MaxPointerSteps == 12 \* pointer samples, half an icon slot apart
MaxShellCalls == 7    \* SHAppBarMessage calls after which no new event is taken
MaxNesting == 3       \* handler activations on the thread's stack, startup included

-----------------------------------------------------------------------------
(* Visual constants, src/src/window.rs:49-58 *)

ICON_SIZE == 48
ICON_SPACING == 10
ICON_SLOT == ICON_SIZE + ICON_SPACING
BAR_PADDING_H == 12
BAR_PADDING_V == 6
BAR_HEIGHT == ICON_SIZE + BAR_PADDING_V * 2
BAR_BOTTOM_MARGIN == 8
SIGMA == 90
WIN_HEIGHT == 200

(* Fixed point: the scale 1.0, and a length of p pixels *)
ONE == 10 * 1000
PX(p) == p * (2 * ONE)

MAX_SCALE == (18 * ONE) \div 10

Abs(a) == IF a < 0 THEN -a ELSE a

RECURSIVE SumSeq(_)
SumSeq(s) == IF s = <<>> THEN 0 ELSE s[1] + SumSeq(Tail(s))

-----------------------------------------------------------------------------
(* f32::exp at a non-positive argument -num/den, in units of 1/ONE.        *)
(* exp(-t) = exp(-1)^q * exp(-u) with t = q + u, 0 <= u < 1, and           *)
(* exp(-u) = 1 / (1 + u + u^2/2 + ... + u^5/120).  u is rounded up and the *)
(* quotient down: a non-zero argument never gives 1.0, as in f32, where    *)
(* the smallest non-zero argument the dock produces (half a pixel:         *)
(* -0.25/16200) gives 0.99998456 < 1.  The result is within 3/ONE of exp.  *)

EXP_NEG_ONE == (3679 * ONE) \div 10000

RECURSIVE TimesExpNegOne(_, _)
TimesExpNegOne(e, q) ==
    IF q = 0 \/ e = 0 THEN e ELSE TimesExpNegOne((e * EXP_NEG_ONE) \div ONE, q - 1)

ExpNeg(num, den) ==
    LET q  == num \div den
        r  == num % den
        u  == (r * ONE + den - 1) \div den
        t2 == (u * u) \div (2 * ONE)
        t3 == (t2 * u) \div (3 * ONE)
        t4 == (t3 * u) \div (4 * ONE)
        t5 == (t4 * u) \div (5 * ONE)
    IN  TimesExpNegOne((ONE * ONE) \div (ONE + u + t2 + t3 + t4 + t5), q)

(* window.rs:411-414: the scale of the icon whose base position is base_x. *)
(* Distances are counted in half pixels (every base position and every     *)
(* pointer x is a multiple of half a pixel), rounded up otherwise.         *)
(* Faulty variants: the factor is MAX_SCALE instead of MAX_SCALE - 1; the *)
(* centre is taken to be the icon's left edge                            *)
MagnifiedScale_FullFactor(base_x, mouse_x) ==
    LET center_x == base_x + PX(ICON_SIZE) \div 2
        dist == Abs(mouse_x - center_x)
        half == (dist + ONE - 1) \div ONE
        m == MAX_SCALE
    IN  ONE + (m * ExpNeg(half * half, 4 * (2 * SIGMA * SIGMA))) \div ONE

MagnifiedScale_LeftEdge(base_x, mouse_x) ==
    LET center_x == base_x
        dist == Abs(mouse_x - center_x)
        half == (dist + ONE - 1) \div ONE
        m == MAX_SCALE - ONE
    IN  ONE + (m * ExpNeg(half * half, 4 * (2 * SIGMA * SIGMA))) \div ONE

MagnifiedScale(base_x, mouse_x) ==
    LET center_x == base_x + PX(ICON_SIZE) \div 2
        dist == Abs(mouse_x - center_x)
        half == (dist + ONE - 1) \div ONE
        m == MAX_SCALE - ONE
    IN  ONE + (m * ExpNeg(half * half, 4 * (2 * SIGMA * SIGMA))) \div ONE

(* window.rs:406 and 409-417: scales (and a faulty variant that ignores *)
(* magnify)                                                            *)
Scales_IgnoreMagnify(base_positions, mouse_x, magnify) ==
    [i \in 1..Len(base_positions) |-> MagnifiedScale(base_positions[i], mouse_x)]

Scales(base_positions, mouse_x, magnify) ==
    [i \in 1..Len(base_positions) |->
        IF magnify THEN MagnifiedScale(base_positions[i], mouse_x) ELSE ONE]

(* window.rs:407 and 415: icon_widths *)
IconWidths(scales, magnify) ==
    [i \in 1..Len(scales) |->
        IF magnify THEN scales[i] * (2 * ICON_SIZE) ELSE PX(ICON_SIZE)]

(* window.rs:420-421: total_width and bar_width (and a faulty variant *)
(* with one spacing per icon)                                        *)
BarWidth_SpacingPerIcon(icon_widths) ==
    SumSeq(icon_widths) + Len(icon_widths) * PX(ICON_SPACING)
    + PX(BAR_PADDING_H) * 2

BarWidth(icon_widths) ==
    SumSeq(icon_widths) + (Len(icon_widths) - 1) * PX(ICON_SPACING)
    + PX(BAR_PADDING_H) * 2

(* window.rs:426-438: positions (and a faulty variant that advances by *)
(* the unscaled slot)                                                  *)
IconPositions_BaseSlot(bar_x, bar_y, scales, icon_widths) ==
    [i \in 1..Len(scales) |->
        [X |-> bar_x + PX(BAR_PADDING_H) + (i - 1) * PX(ICON_SLOT),
         Y |-> bar_y + PX(BAR_HEIGHT) - PX(BAR_PADDING_V)
               - scales[i] * (2 * ICON_SIZE)]]

(* A faulty variant of the positions: every icon hangs from the top *)
(* padding of the bar, as the visuals do at startup                 *)
IconPositions_TopAnchored(bar_x, bar_y, scales, icon_widths) ==
    [i \in 1..Len(scales) |->
        [X |-> bar_x + PX(BAR_PADDING_H)
               + SumSeq([k \in 1..(i - 1) |-> icon_widths[k] + PX(ICON_SPACING)]),
         Y |-> bar_y + PX(BAR_PADDING_V)]]

IconPositions(bar_x, bar_y, scales, icon_widths) ==
    [i \in 1..Len(scales) |->
        [X |-> bar_x + PX(BAR_PADDING_H)
               + SumSeq([k \in 1..(i - 1) |-> icon_widths[k] + PX(ICON_SPACING)]),
         Y |-> bar_y + PX(BAR_HEIGHT) - PX(BAR_PADDING_V)
               - scales[i] * (2 * ICON_SIZE)]]

(* window.rs:398-441.  Returns (scales, positions, bar_width, bar_x, bar_y) *)
calc_dock_layout(base_positions, mouse_x, w_width, w_height, magnify) ==
    LET scales == Scales(base_positions, mouse_x, magnify)
        icon_widths == IconWidths(scales, magnify)
        bar_width == BarWidth(icon_widths)
        bar_x == (PX(w_width) - bar_width) \div 2
        bar_y == PX(w_height) - PX(BAR_HEIGHT) - PX(BAR_BOTTOM_MARGIN)
    IN  [scales |-> scales,
         positions |-> IconPositions(bar_x, bar_y, scales, icon_widths),
         bar_width |-> bar_width, bar_x |-> bar_x, bar_y |-> bar_y]

-----------------------------------------------------------------------------
(* Inputs *)

(* The configuration's shortcuts, each with or without an extracted icon *)
IconSets == UNION {[1..k -> BOOLEAN] : k \in 0..MaxIcons}

(* GetSystemMetrics(SM_CXSCREEN), scaled down so that a bar of five icons *)
(* (304 px) is wider than the narrowest window; one width is odd.         *)
WinWidths == {5 * ICON_SLOT, 5 * ICON_SLOT + 1, 6 * ICON_SLOT}

(* The low word of lparam of WM_MOUSEMOVE, in pixels *)
PointerXs == {k * (ICON_SLOT \div 2) : k \in 0..MaxPointerSteps}

TaskbarStates == {"absent", "visible", "hidden"}

-----------------------------------------------------------------------------
(* Native dock: startup, src/src/window.rs:204-381 *)

NoScaleKeyFrame == [set |-> FALSE, v |-> 0]
NoOffsetKeyFrame == [set |-> FALSE, X |-> 0, Y |-> 0]
NoPointerMsg == [kind |-> "none", x |-> 0]
(* a visual on which no animation was started: window.rs:247-257 *)
NoAnimation == [Scale |-> <<>>, Offset |-> <<>>]

(* window.rs:204-232 and the loop of 234-362: the initial bar and, for    *)
(* each icon that was extracted, its visual's offset and base position.   *)
StartupGeometry(ics, w_width) ==
    LET n_icons == Len(ics)
        total_icons_width == n_icons * PX(ICON_SLOT) - PX(ICON_SPACING)
        bar_total_width == total_icons_width + PX(BAR_PADDING_H) * 2
        bar_x == (PX(w_width) - bar_total_width) \div 2
        bar_y == PX(WIN_HEIGHT) - PX(BAR_HEIGHT) - PX(BAR_BOTTOM_MARGIN)
        icons_start_x == bar_x + PX(BAR_PADDING_H)
        icon_y == bar_y + PX(BAR_PADDING_V)
        found == SelectSeq([k \in 1..n_icons |-> k], LAMBDA k : ics[k])
        current_x(k) == icons_start_x + (k - 1) * PX(ICON_SLOT)
    IN  [bar |-> [width |-> bar_total_width, height |-> PX(BAR_HEIGHT),
                  X |-> bar_x, Y |-> bar_y],
         base |-> [j \in 1..Len(found) |-> current_x(found[j])],
         offsets |-> [j \in 1..Len(found) |-> [X |-> current_x(found[j]), Y |-> icon_y]]]

(* window.rs:85-381: run up to the message loop *)
run ==
    /\ n_pc = "init"
    /\ LET g == StartupGeometry(icons, win_width)
       IN  /\ base_x_positions' = g.base
           /\ icon_visuals' = g.offsets
           /\ scale_animations' = [j \in 1..Len(g.base) |-> NoScaleKeyFrame]
           /\ offset_animations' = [j \in 1..Len(g.base) |-> NoOffsetKeyFrame]
           /\ bg_bar_visual' = g.bar
           /\ visual_animations' = [j \in 1..Len(g.base) |-> NoAnimation]
    /\ IF n_taskbar # "absent"
       THEN n_taskbar' = "hidden" /\ taskbar_hwnd' = TRUE
       ELSE n_taskbar' = n_taskbar /\ taskbar_hwnd' = FALSE
    /\ n_pc' = "loop"
    /\ UNCHANGED <<icons, win_width, tme_armed, last_msg, quit_posted, window_destroyed,
                   last_click, launch_requests>>
    /\ UNCHANGED <<layoutVars, tauriVars, lockVars, raceVars>>

-----------------------------------------------------------------------------
(* Native dock: the window procedure, src/src/window.rs:443-598 *)

(* A faulty variant: StartAnimation adds to the animations already started *)
(* on the property instead of taking their place                           *)
ApplyLayout_Queued(layout, scale_frames) ==
    /\ scale_animations' = [i \in 1..Len(icon_visuals) |->
                              [set |-> TRUE, v |-> scale_frames[i]]]
    /\ offset_animations' = [i \in 1..Len(icon_visuals) |->
                              [set |-> TRUE, X |-> layout.positions[i].X,
                               Y |-> layout.positions[i].Y]]
    /\ visual_animations' = [i \in 1..Len(icon_visuals) |->
                              [Scale |-> Append(visual_animations[i].Scale,
                                                scale_frames[i]),
                               Offset |-> Append(visual_animations[i].Offset,
                                                 layout.positions[i])]]
    /\ bg_bar_visual' = [width |-> layout.bar_width, height |-> PX(BAR_HEIGHT),
                         X |-> layout.bar_x, Y |-> layout.bar_y]

(* window.rs:473-515 and 537-577: one key frame per slot, and the bar;     *)
(* scale_frames are the values put into the scale key frames.              *)
(* InsertKeyFrame(1.0, v) sets the one key frame at progress 1.0 of the    *)
(* slot's animation; StartAnimation(property, animation) ends whatever     *)
(* animation was bound to that property of the visual and binds this one.  *)
ApplyLayout(layout, scale_frames) ==
    /\ scale_animations' = [i \in 1..Len(icon_visuals) |->
                              [set |-> TRUE, v |-> scale_frames[i]]]
    /\ offset_animations' = [i \in 1..Len(icon_visuals) |->
                              [set |-> TRUE, X |-> layout.positions[i].X,
                               Y |-> layout.positions[i].Y]]
    /\ visual_animations' = [i \in 1..Len(icon_visuals) |->
                              [Scale |-> <<scale_frames[i]>>,
                               Offset |-> <<layout.positions[i]>>]]
    /\ bg_bar_visual' = [width |-> layout.bar_width, height |-> PX(BAR_HEIGHT),
                         X |-> layout.bar_x, Y |-> layout.bar_y]

(* A faulty WM_MOUSEMOVE: TrackMouseEvent is called after the early return *)
(* of a dock without visuals                                              *)
WM_MOUSEMOVE_ArmAfterReturn(x) ==
    /\ n_pc = "loop" /\ ~quit_posted
    /\ tme_armed' = (tme_armed \/ Len(icon_visuals) # 0)
    /\ last_msg' = [kind |-> "move", x |-> x]
    /\ IF Len(icon_visuals) = 0
       THEN UNCHANGED <<scale_animations, offset_animations, bg_bar_visual,
                         visual_animations>>
       ELSE LET layout == calc_dock_layout(base_x_positions, PX(x), win_width,
                                           WIN_HEIGHT, TRUE)
            IN  ApplyLayout(layout, layout.scales)
    /\ last_click' = 0
    /\ UNCHANGED <<n_pc, icons, win_width, base_x_positions, icon_visuals,
                   taskbar_hwnd, n_taskbar, quit_posted, window_destroyed, launch_requests>>
    /\ UNCHANGED <<layoutVars, tauriVars, lockVars, raceVars>>

(* window.rs:446-519; TrackMouseEvent (450-456) comes first, before STATE *)
(* is looked at                                                          *)
WM_MOUSEMOVE(x) ==
    /\ n_pc = "loop" /\ ~quit_posted
    /\ tme_armed' = TRUE
    /\ last_msg' = [kind |-> "move", x |-> x]
    /\ IF Len(icon_visuals) = 0
       THEN UNCHANGED <<scale_animations, offset_animations, bg_bar_visual,
                         visual_animations>>
       ELSE LET layout == calc_dock_layout(base_x_positions, PX(x), win_width,
                                           WIN_HEIGHT, TRUE)
            IN  ApplyLayout(layout, layout.scales)
    /\ last_click' = 0
    /\ UNCHANGED <<n_pc, icons, win_width, base_x_positions, icon_visuals,
                   taskbar_hwnd, n_taskbar, quit_posted, window_destroyed, launch_requests>>
    /\ UNCHANGED <<layoutVars, tauriVars, lockVars, raceVars>>

(* A faulty WM_MOUSELEAVE: the layout is solved with the last pointer x *)
WM_MOUSELEAVE_StalePointer ==
    /\ n_pc = "loop" /\ ~quit_posted
    /\ tme_armed
    /\ tme_armed' = FALSE
    /\ last_msg' = [kind |-> "leave", x |-> 0]
    /\ IF Len(icon_visuals) = 0
       THEN UNCHANGED <<scale_animations, offset_animations, bg_bar_visual,
                         visual_animations>>
       ELSE LET layout == calc_dock_layout(base_x_positions, PX(last_msg.x), win_width,
                                           WIN_HEIGHT, TRUE)
            IN  ApplyLayout(layout, [i \in 1..Len(icon_visuals) |-> ONE])
    /\ last_click' = 0
    /\ UNCHANGED <<n_pc, icons, win_width, base_x_positions, icon_visuals,
                   taskbar_hwnd, n_taskbar, quit_posted, window_destroyed, launch_requests>>
    /\ UNCHANGED <<layoutVars, tauriVars, lockVars, raceVars>>

(* window.rs:520-581; the system posts WM_MOUSELEAVE only when TME_LEAVE *)
(* was requested, and the request is used up by it                       *)
WM_MOUSELEAVE ==
    /\ n_pc = "loop" /\ ~quit_posted
    /\ tme_armed
    /\ tme_armed' = FALSE
    /\ last_msg' = [kind |-> "leave", x |-> 0]
    /\ IF Len(icon_visuals) = 0
       THEN UNCHANGED <<scale_animations, offset_animations, bg_bar_visual,
                         visual_animations>>
       ELSE LET layout == calc_dock_layout(base_x_positions, 0, win_width,
                                           WIN_HEIGHT, FALSE)
            IN  ApplyLayout(layout, [i \in 1..Len(icon_visuals) |-> ONE])
    /\ last_click' = 0
    /\ UNCHANGED <<n_pc, icons, win_width, base_x_positions, icon_visuals,
                   taskbar_hwnd, n_taskbar, quit_posted, window_destroyed, launch_requests>>
    /\ UNCHANGED <<layoutVars, tauriVars, lockVars, raceVars>>

(* window.rs:582 *)
WM_LBUTTONUP ==
    /\ n_pc = "loop" /\ ~quit_posted
    /\ UNCHANGED vars

(* The icon rectangles of the layout solved last: slot i spans, from its  *)
(* offset, its scale times ICON_SIZE; before the first pointer message   *)
(* these are the offsets of startup at scale 1.  HitSlot is the slot     *)
(* whose span holds a pointer at x pixels on the icon row, or 0.         *)
SlotLeft(i) ==
    IF offset_animations[i].set THEN offset_animations[i].X ELSE icon_visuals[i].X
SlotWidth(i) ==
    IF scale_animations[i].set THEN scale_animations[i].v * (2 * ICON_SIZE)
    ELSE PX(ICON_SIZE)
HitSlot(x) ==
    LET hit == {i \in 1..Len(icon_visuals) :
                  SlotLeft(i) <= PX(x) /\ PX(x) < SlotLeft(i) + SlotWidth(i)}
    IN  IF hit = {} THEN 0 ELSE CHOOSE i \in hit : TRUE

(* window.rs:582 with the pointer's x of the message: the arm returns *)
(* LRESULT(0); last_click keeps what the pointer was over             *)
WM_LBUTTONUP_At(x) ==
    /\ n_pc = "loop" /\ ~quit_posted
    /\ last_click' = HitSlot(x)
    /\ UNCHANGED <<n_pc, icons, win_width, base_x_positions, icon_visuals,
                   scale_animations, offset_animations, bg_bar_visual,
                   visual_animations, taskbar_hwnd, n_taskbar, tme_armed,
                   last_msg, quit_posted, window_destroyed, launch_requests>>
    /\ UNCHANGED <<layoutVars, tauriVars, lockVars, raceVars>>

(* window.rs:243-257: a sprite visual of ICON_SIZE x ICON_SIZE whose      *)
(* CenterPoint is (ICON_SIZE / 2, ICON_SIZE).  The compositor draws the   *)
(* visual's point (., local_y) at Offset + CenterPoint + Scale * (point - *)
(* CenterPoint); local_y is in pixels from the visual's top.              *)
CENTER_POINT_Y == ICON_SIZE
OnScreenY(offset_y, scale, local_y) ==
    offset_y + PX(CENTER_POINT_Y) + scale * (2 * (local_y - CENTER_POINT_Y))

(* window.rs:583-594.  state_set: STATE.get() is Some; lock_ok: lock()    *)
(* returns Ok (Err is a poisoned mutex).  PostQuitMessage is called after *)
(* the three nested `if let`, whatever they found.                        *)
WM_DESTROY_QuitInsideBranch(state_set, lock_ok) ==
    /\ n_pc = "loop" /\ ~window_destroyed
    /\ n_taskbar' = IF state_set /\ lock_ok /\ taskbar_hwnd THEN "visible"
                    ELSE n_taskbar
    /\ quit_posted' = (state_set /\ lock_ok /\ taskbar_hwnd)
    /\ window_destroyed' = TRUE
    /\ last_click' = 0
    /\ UNCHANGED <<n_pc, icons, win_width, base_x_positions, icon_visuals,
                   scale_animations, offset_animations, bg_bar_visual,
                   visual_animations, taskbar_hwnd, tme_armed, last_msg,
                   launch_requests>>
    /\ UNCHANGED <<layoutVars, tauriVars, lockVars, raceVars>>

WM_DESTROY(state_set, lock_ok) ==
    /\ n_pc = "loop" /\ ~window_destroyed
    /\ n_taskbar' = IF state_set /\ lock_ok /\ taskbar_hwnd THEN "visible"
                    ELSE n_taskbar
    /\ quit_posted' = TRUE
    /\ window_destroyed' = TRUE
    /\ last_click' = 0
    /\ UNCHANGED <<n_pc, icons, win_width, base_x_positions, icon_visuals,
                   scale_animations, offset_animations, bg_bar_visual,
                   visual_animations, taskbar_hwnd, tme_armed, last_msg,
                   launch_requests>>
    /\ UNCHANGED <<layoutVars, tauriVars, lockVars, raceVars>>

(* window.rs:383-388: GetMessageW returns 0 on WM_QUIT and run returns *)
MessageLoopExit ==
    /\ n_pc = "loop" /\ quit_posted
    /\ n_pc' = "quit"
    /\ UNCHANGED <<icons, win_width, base_x_positions, icon_visuals,
                   scale_animations, offset_animations, bg_bar_visual,
                   visual_animations, taskbar_hwnd, n_taskbar, tme_armed, last_msg,
                   quit_posted, window_destroyed, last_click, launch_requests>>
    /\ UNCHANGED <<layoutVars, tauriVars, lockVars, raceVars>>

-----------------------------------------------------------------------------
(* The layout solver on drawn arguments *)

NoLayoutCall == [called |-> FALSE, base_positions |-> <<>>, mouse_x |-> 0,
                 win_width |-> 0, win_height |-> 0, magnify |-> FALSE]
NoLayout == [scales |-> <<>>, positions |-> <<>>, bar_width |-> 0,
             bar_x |-> 0, bar_y |-> 0]

LayoutCalls ==
    { [called |-> FALSE, base_positions |-> StartupGeometry(ics, w).base,
       mouse_x |-> PX(x), win_width |-> w, win_height |-> WIN_HEIGHT,
       magnify |-> magnify] :
      ics \in IconSets, w \in WinWidths, x \in PointerXs, magnify \in BOOLEAN }

CallLayout ==
    /\ ~lay_in.called
    /\ lay_out' = calc_dock_layout(lay_in.base_positions, lay_in.mouse_x,
                                   lay_in.win_width, lay_in.win_height,
                                   lay_in.magnify)
    /\ lay_in' = [lay_in EXCEPT !.called = TRUE]
    /\ UNCHANGED <<nativeVars, tauriVars, lockVars, raceVars>>

-----------------------------------------------------------------------------
(* Tauri dock: what window.current_monitor() can return.  scale is the     *)
(* monitor's scale factor in percent; the second monitor lies to the right *)
(* of the primary one.                                                     *)

NoMonitor == [present |-> FALSE, x |-> 0, y |-> 0, width |-> 0, height |-> 0,
              scale |-> 100]
Monitors ==
    { [present |-> TRUE, x |-> 0, y |-> 0, width |-> 1920, height |-> 1080,
       scale |-> 100],
      [present |-> TRUE, x |-> 0, y |-> 0, width |-> 1920, height |-> 1080,
       scale |-> 125],
      [present |-> TRUE, x |-> 1920, y |-> 0, width |-> 2560, height |-> 1440,
       scale |-> 150] }
MonitorStates == Monitors \cup {NoMonitor}

LOGICAL_DOCK_HEIGHT == 82
HIDDEN_STRIP == 4

(* lib.rs:144: (logical_dock_height as f64 * scale).round() as i32 *)
PhysDockHeight(mon) == (LOGICAL_DOCK_HEIGHT * mon.scale + 50) \div 100

NoRect == [left |-> 0, top |-> 0, right |-> 0, bottom |-> 0]
NoAppBar == [live |-> 0, edge |-> "none", rc |-> NoRect]

(* The shell's answers to SHAppBarMessage.  sh is the shell's state and    *)
(* the log of the calls: [appbar |-> ..., log |-> ...].  ABM_NEW adds a    *)
(* registration when the shell grants it, ABM_REMOVE drops the window's    *)
(* registrations, ABM_SETPOS records the edge and rectangle.               *)
ShellCall(op, ok) == [op |-> op, ok |-> ok]

(* lib.rs:216-226 *)
unregister_appbar(sh) ==
    [appbar |-> NoAppBar,
     log |-> Append(sh.log, ShellCall("ABM_REMOVE", TRUE))]

(* A faulty register_appbar: the position request is sent whatever the *)
(* shell answered to ABM_NEW                                           *)
register_appbar_SetPosAnyway(sh, granted, dock_height, screen_width, screen_height) ==
    [appbar |-> [live |-> sh.appbar.live + (IF granted THEN 1 ELSE 0),
                 edge |-> "ABE_BOTTOM",
                 rc |-> [left |-> 0, top |-> screen_height - dock_height,
                         right |-> screen_width, bottom |-> screen_height]],
     log |-> sh.log \o <<ShellCall("ABM_NEW", granted),
                         ShellCall("ABM_SETPOS", TRUE)>>]

(* lib.rs:183-214; granted: the result of ABM_NEW is not 0 *)
register_appbar(sh, granted, dock_height, screen_width, screen_height) ==
    IF ~granted
    THEN [appbar |-> sh.appbar,
          log |-> Append(sh.log, ShellCall("ABM_NEW", FALSE))]
    ELSE [appbar |-> [live |-> sh.appbar.live + 1,
                      edge |-> "ABE_BOTTOM",
                      rc |-> [left |-> 0, top |-> screen_height - dock_height,
                              right |-> screen_width, bottom |-> screen_height]],
          log |-> sh.log \o <<ShellCall("ABM_NEW", TRUE),
                              ShellCall("ABM_SETPOS", TRUE)>>]

(* lib.rs:138-160: the size and position the window is given *)
DockSize(mon) == [width |-> mon.width, height |-> PhysDockHeight(mon)]

DockPos(mon, hidden) ==
    [x |-> mon.x,
     y |-> IF hidden THEN mon.y + mon.height - HIDDEN_STRIP
           ELSE mon.y + mon.height - PhysDockHeight(mon)]

(* A faulty update_dock_position: the earlier registration is not released *)
update_dock_position_NoRelease(hidden, mon, hwnd_ok, granted) ==
    LET sh0 == [appbar |-> appbar, log |-> shell_log]
        sh1 == sh0
        sh2 == IF ~hidden
               THEN register_appbar(sh1, granted, PhysDockHeight(mon),
                                    mon.width, mon.height)
               ELSE sh1
        sh  == IF mon.present /\ hwnd_ok THEN sh2 ELSE sh0
    IN  /\ IF mon.present
           THEN win_size' = DockSize(mon) /\ win_pos' = DockPos(mon, hidden)
           ELSE UNCHANGED <<win_size, win_pos>>
        /\ appbar' = sh.appbar
        /\ shell_log' = sh.log
        /\ last_update' = [hidden |-> hidden, mon |-> mon, hwnd_ok |-> hwnd_ok,
                           asked |-> mon.present /\ hwnd_ok /\ ~hidden,
                           granted |-> mon.present /\ hwnd_ok /\ ~hidden /\ granted]

(* A faulty update_dock_position: the release is requested before the *)
(* monitor is asked for                                               *)
update_dock_position_ReleaseFirst(hidden, mon, hwnd_ok, granted) ==
    LET sh0 == [appbar |-> appbar, log |-> shell_log]
        sh1 == unregister_appbar(sh0)
        sh2 == IF ~hidden
               THEN register_appbar(sh1, granted, PhysDockHeight(mon),
                                    mon.width, mon.height)
               ELSE sh1
        sh  == IF ~hwnd_ok THEN sh0 ELSE IF mon.present THEN sh2 ELSE sh1
    IN  /\ IF mon.present
           THEN win_size' = DockSize(mon) /\ win_pos' = DockPos(mon, hidden)
           ELSE UNCHANGED <<win_size, win_pos>>
        /\ appbar' = sh.appbar
        /\ shell_log' = sh.log
        /\ last_update' = [hidden |-> hidden, mon |-> mon, hwnd_ok |-> hwnd_ok,
                           asked |-> mon.present /\ hwnd_ok /\ ~hidden,
                           granted |-> mon.present /\ hwnd_ok /\ ~hidden /\ granted]

(* lib.rs:135-179.  hidden: the flag read at line 136; mon: the result of  *)
(* current_monitor(); hwnd_ok: window.hwnd() is Ok; granted: the shell's   *)
(* answer to ABM_NEW, should it be asked.                                  *)
update_dock_position(hidden, mon, hwnd_ok, granted) ==
    LET sh0 == [appbar |-> appbar, log |-> shell_log]
        sh1 == unregister_appbar(sh0)
        sh2 == IF ~hidden
               THEN register_appbar(sh1, granted, PhysDockHeight(mon),
                                    mon.width, mon.height)
               ELSE sh1
        sh  == IF mon.present /\ hwnd_ok THEN sh2 ELSE sh0
    IN  /\ IF mon.present
           THEN win_size' = DockSize(mon) /\ win_pos' = DockPos(mon, hidden)
           ELSE UNCHANGED <<win_size, win_pos>>
        /\ appbar' = sh.appbar
        /\ shell_log' = sh.log
        /\ last_update' = [hidden |-> hidden, mon |-> mon, hwnd_ok |-> hwnd_ok,
                           asked |-> mon.present /\ hwnd_ok /\ ~hidden,
                           granted |-> mon.present /\ hwnd_ok /\ ~hidden /\ granted]

(* lib.rs:115-122 and 124-131: FindWindowW finds the taskbar when it exists *)
hide_taskbar(tb) == IF tb # "absent" THEN "hidden" ELSE tb
show_taskbar(tb) == IF tb # "absent" THEN "visible" ELSE tb

(* What a hide / un-hide round trip is compared with.  Hiding a dock that  *)
(* is shown and reserved on its monitor records the window's size and     *)
(* position and the reservation's edge and rectangle (phase "hidden");    *)
(* the next set_dock_hidden(false) ends the round trip (phase "shown").   *)
(* Any geometry event in between abandons it.                             *)
NoRoundTrip == [phase |-> "none", size |-> [width |-> 0, height |-> 0],
                pos |-> [x |-> 0, y |-> 0], edge |-> "none", rc |-> NoRect]
RoundTrip(hidden) ==
    IF hidden
    THEN IF ~is_hidden /\ appbar.live = 1 /\ monitor.present
         THEN [phase |-> "hidden", size |-> win_size, pos |-> win_pos,
               edge |-> appbar.edge, rc |-> appbar.rc]
         ELSE IF before_hide.phase = "hidden" THEN before_hide ELSE NoRoundTrip
    ELSE IF before_hide.phase = "hidden"
         THEN [before_hide EXCEPT !.phase = "shown"]
         ELSE NoRoundTrip

(* window.hwnd() is Result<HWND>.  Each handler below takes the set of   *)
(* answers hwnd() may give while the window is open (TRUE: Ok); in the   *)
(* Destroyed handler, where the window is going away, either answer is   *)
(* possible.                                                             *)

(* lib.rs:272-303: the setup hook *)
Setup(hwnds) ==
    /\ t_pc = "init"
    /\ t_taskbar' = hide_taskbar(t_taskbar)
    /\ \E hwnd_ok \in hwnds, granted \in BOOLEAN :
          update_dock_position(is_hidden, monitor, hwnd_ok, granted)
    /\ t_pc' = "running"
    /\ UNCHANGED <<is_hidden, monitor, before_hide>>
    /\ UNCHANGED <<nativeVars, layoutVars, lockVars, raceVars>>

(* lib.rs:284-289: ScaleFactorChanged, Moved or Resized; mon is the monitor *)
(* the window is on after the change                                        *)
GeometryChanged(hwnds) ==
    /\ t_pc = "running"
    /\ Len(shell_log) < MaxShellCalls
    /\ \E mon \in MonitorStates, hwnd_ok \in hwnds, granted \in BOOLEAN :
          /\ monitor' = mon
          /\ update_dock_position(is_hidden, mon, hwnd_ok, granted)
    /\ before_hide' = NoRoundTrip
    /\ UNCHANGED <<t_pc, is_hidden, t_taskbar>>
    /\ UNCHANGED <<nativeVars, layoutVars, lockVars, raceVars>>

(* A faulty set_dock_hidden: un-hiding stores the flag and leaves the *)
(* window and the reservation as they are                            *)
set_dock_hidden_NoRestore(hidden, hwnds) ==
    /\ t_pc = "running"
    /\ Len(shell_log) < MaxShellCalls
    /\ is_hidden' = hidden
    /\ IF hidden
       THEN \E hwnd_ok \in hwnds, granted \in BOOLEAN :
               update_dock_position(hidden, monitor, hwnd_ok, granted)
       ELSE UNCHANGED <<win_size, win_pos, appbar, shell_log, last_update>>
    /\ before_hide' = RoundTrip(hidden)
    /\ UNCHANGED <<t_pc, monitor, t_taskbar>>
    /\ UNCHANGED <<nativeVars, layoutVars, lockVars, raceVars>>

(* lib.rs:26-38 *)
set_dock_hidden(hidden, hwnds) ==
    /\ t_pc = "running"
    /\ Len(shell_log) < MaxShellCalls
    /\ is_hidden' = hidden
    /\ \E hwnd_ok \in hwnds, granted \in BOOLEAN :
          update_dock_position(hidden, monitor, hwnd_ok, granted)
    /\ before_hide' = RoundTrip(hidden)
    /\ UNCHANGED <<t_pc, monitor, t_taskbar>>
    /\ UNCHANGED <<nativeVars, layoutVars, lockVars, raceVars>>

(* lib.rs:290-298 *)
Destroyed ==
    /\ t_pc = "running"
    /\ \E hwnd_ok \in BOOLEAN :
          LET sh0 == [appbar |-> appbar, log |-> shell_log]
              sh  == IF hwnd_ok THEN unregister_appbar(sh0) ELSE sh0
          IN  appbar' = sh.appbar /\ shell_log' = sh.log
    /\ t_taskbar' = show_taskbar(t_taskbar)
    /\ t_pc' = "destroyed"
    /\ before_hide' = NoRoundTrip
    /\ UNCHANGED <<is_hidden, monitor, win_size, win_pos, last_update>>
    /\ UNCHANGED <<nativeVars, layoutVars, lockVars, raceVars>>

-----------------------------------------------------------------------------
(* The state lock and the calls made under it.                             *)
(*                                                                         *)
(* Each program runs its handlers on one thread.  ui_stack is that         *)
(* thread's stack of handler activations, the startup code at the bottom;  *)
(* a frame is [h: the handler, opt: the branch its condition takes, i: the *)
(* step it is at, in_call: it is inside a system call].  While the top     *)
(* frame is inside a system call that makes the system send messages to    *)
(* the window, a handler for such a message runs on top of it.  The mutex  *)
(* is std::sync::Mutex: lock() on a mutex the thread holds never returns.  *)

Op(kind, line) == [kind |-> kind, line |-> line]

(* lib.rs:135-179: the flag is read under the lock, which the statement *)
(* releases; opt: register_appbar is called (the dock is not hidden)    *)
UpdateSteps(opt) ==
    <<Op("lock", 136), Op("unlock", 136), Op("call", 156), Op("call", 160),
      Op("call", 166)>> \o (IF opt THEN <<Op("call", 169)>> ELSE <<>>)

(* The lock, unlock and system-call steps of each piece of code, in order. *)
(* window.rs: opt is `taskbar found`, resp. `state.taskbar_hwnd is Some`.  *)
Steps(h, opt) ==
    CASE h = "run" ->
            <<Op("lock", 206), Op("unlock", 208), Op("lock", 237), Op("unlock", 363)>>
            \o (IF opt THEN <<Op("call", 369)>> ELSE <<>>)
            \o <<Op("call", 372), Op("lock", 374), Op("unlock", 380)>>
      [] h = "WM_MOUSEMOVE" ->
            <<Op("work", 456), Op("lock", 459), Op("unlock", 517)>>
      [] h = "WM_MOUSELEAVE" -> <<Op("lock", 523), Op("unlock", 579)>>
      [] h = "WM_LBUTTONUP" -> <<Op("work", 582)>>
      [] h = "WM_DESTROY" ->
            <<Op("lock", 586)>>
            \o (IF opt THEN <<Op("call", 588)>> ELSE <<>>)
            \o <<Op("unlock", 590), Op("work", 592)>>
      [] h = "DefWindowProcW" -> <<Op("work", 595)>>
      [] h = "setup" -> <<Op("call", 273)>> \o UpdateSteps(opt)
      [] h = "set_dock_hidden" ->
            <<Op("lock", 32), Op("work", 33), Op("unlock", 34)>> \o UpdateSteps(opt)
      [] h = "geometry" -> UpdateSteps(opt)
      [] h = "get_config" -> <<Op("lock", 22), Op("work", 23), Op("unlock", 24)>>
      [] h = "Destroyed" -> <<Op("call", 294), Op("call", 297)>>

StartupOf(prog) == IF prog = "native" THEN "run" ELSE "setup"

(* the handlers the message loop, resp. the Tauri runtime, dispatches *)
Handlers(prog) ==
    IF prog = "native"
    THEN {"WM_MOUSEMOVE", "WM_MOUSELEAVE", "WM_LBUTTONUP", "WM_DESTROY",
          "DefWindowProcW"}
    ELSE {"set_dock_hidden", "geometry", "get_config", "Destroyed"}

(* the handlers of what the system sends to the window from within a call: *)
(* ShowWindow sends WM_SHOWWINDOW, WM_WINDOWPOSCHANGING and the like, all  *)
(* handled by the default arm; resizing, moving and reserving the Tauri    *)
(* window bring Moved / Resized                                            *)
SentDuringCall(prog) == IF prog = "native" THEN {"DefWindowProcW"} ELSE {"geometry"}

(* the handlers after which the program's loop ends *)
LastHandlers == {"WM_DESTROY", "Destroyed"}

Frame(h, opt) == [h |-> h, opt |-> opt, i |-> 1, in_call |-> FALSE]
Depth == Len(ui_stack)
Top == ui_stack[Depth]
Finished(f) == f.i > Len(Steps(f.h, f.opt))
AtOp(kind) ==
    /\ ui_stack # <<>> /\ ~lock_wait
    /\ ~Top.in_call /\ ~Finished(Top)
    /\ Steps(Top.h, Top.opt)[Top.i].kind = kind
Advance == ui_stack' = [ui_stack EXCEPT ![Depth].i = @ + 1, ![Depth].in_call = FALSE]

-----------------------------------------------------------------------------
(* Tauri dock: two handlers on two threads.                                *)
(*                                                                         *)
(* set_dock_hidden holds the lock for the write of the flag alone          *)
(* (lib.rs:31-34); update_dock_position holds it for the read alone        *)
(* (lib.rs:136) and makes its window and shell calls without it.  A thread *)
(* is [h: the handler, arg: the argument hidden, pc: the step it is at,    *)
(* local: the is_hidden read at line 136].  The monitor is the one of      *)
(* setup and window.hwnd() is Ok.                                          *)

Threads == {"A", "B"}
NoThread == [h |-> "none", arg |-> FALSE, pc |-> "idle", local |-> FALSE]
RaceIdle == threads = [t \in Threads |-> NoThread]

LockIdle ==
    /\ ui_prog = "none" /\ ui_stack = <<>> /\ state_lock = 0 /\ lock_wait = FALSE

-----------------------------------------------------------------------------
(* Specifications *)

NativeIdle ==
    /\ n_pc = "init" /\ icons = <<>> /\ win_width = 0
    /\ base_x_positions = <<>> /\ icon_visuals = <<>>
    /\ scale_animations = <<>> /\ offset_animations = <<>>
    /\ visual_animations = <<>>
    /\ bg_bar_visual = [width |-> 0, height |-> 0, X |-> 0, Y |-> 0]
    /\ taskbar_hwnd = FALSE /\ n_taskbar = "absent"
    /\ tme_armed = FALSE /\ last_msg = NoPointerMsg /\ quit_posted = FALSE /\ window_destroyed = FALSE
    /\ last_click = 0 /\ launch_requests = <<>>

LayoutIdle == lay_in = NoLayoutCall /\ lay_out = NoLayout

NoUpdate == [hidden |-> FALSE, mon |-> NoMonitor, hwnd_ok |-> FALSE,
             asked |-> FALSE, granted |-> FALSE]

TauriIdle ==
    /\ t_pc = "init" /\ is_hidden = FALSE /\ monitor = NoMonitor
    /\ win_size = [width |-> 0, height |-> 0] /\ win_pos = [x |-> 0, y |-> 0]
    /\ appbar = NoAppBar /\ shell_log = <<>> /\ t_taskbar = "absent"
    /\ last_update = NoUpdate /\ before_hide = NoRoundTrip

(* The native dock: window.rs:85-127, the state run stores in STATE *)
Init ==
    /\ n_pc = "init"
    /\ icons \in IconSets
    /\ win_width \in WinWidths
    /\ base_x_positions = <<>> /\ icon_visuals = <<>>
    /\ scale_animations = <<>> /\ offset_animations = <<>>
    /\ visual_animations = <<>>
    /\ bg_bar_visual = [width |-> 0, height |-> 0, X |-> 0, Y |-> 0]
    /\ taskbar_hwnd = FALSE
    /\ n_taskbar \in TaskbarStates
    /\ tme_armed = FALSE /\ last_msg = NoPointerMsg /\ quit_posted = FALSE /\ window_destroyed = FALSE
    /\ last_click = 0 /\ launch_requests = <<>>
    /\ LayoutIdle /\ TauriIdle /\ LockIdle /\ RaceIdle

Next ==
    \/ run
    \/ \E x \in PointerXs : WM_MOUSEMOVE(x)
    \/ WM_MOUSELEAVE
    \/ WM_LBUTTONUP
    \/ WM_DESTROY(TRUE, TRUE)
    \/ MessageLoopExit

Spec == Init /\ [][Next]_vars

(* The native dock with the pointer's position at each button release *)
NextClick ==
    \/ run
    \/ \E x \in PointerXs : WM_MOUSEMOVE(x)
    \/ WM_MOUSELEAVE
    \/ \E x \in PointerXs : WM_LBUTTONUP_At(x)
    \/ WM_DESTROY(TRUE, TRUE)
    \/ MessageLoopExit

SpecClick == Init /\ [][NextClick]_vars

(* The native dock's way out: WM_DESTROY on each outcome of STATE.get()   *)
(* and of lock(), and the message loop, which leaves once WM_QUIT is in   *)
(* the queue (GetMessageW returns 0, window.rs:384), the thread having    *)
(* nothing else to run.                                                   *)
NextQuit ==
    \/ run
    \/ \E state_set \in BOOLEAN, lock_ok \in BOOLEAN : WM_DESTROY(state_set, lock_ok)
    \/ MessageLoopExit

SpecQuit == Init /\ [][NextQuit]_vars /\ WF_vars(MessageLoopExit)

(* The layout solver alone *)
InitLayout ==
    /\ lay_in \in LayoutCalls /\ lay_out = NoLayout
    /\ NativeIdle /\ TauriIdle /\ LockIdle /\ RaceIdle
NextLayout == CallLayout
SpecLayout == InitLayout /\ [][NextLayout]_vars

(* The Tauri dock: lib.rs:259-263, the managed state before setup *)
InitTauri ==
    /\ t_pc = "init" /\ is_hidden = FALSE
    /\ monitor \in MonitorStates
    /\ win_size = [width |-> 0, height |-> 0] /\ win_pos = [x |-> 0, y |-> 0]
    /\ appbar = NoAppBar /\ shell_log = <<>>
    /\ t_taskbar \in TaskbarStates
    /\ last_update = NoUpdate /\ before_hide = NoRoundTrip
    /\ NativeIdle /\ LayoutIdle /\ LockIdle /\ RaceIdle

NextTauri ==
    \/ Setup(BOOLEAN)
    \/ GeometryChanged(BOOLEAN)
    \/ \E hidden \in BOOLEAN : set_dock_hidden(hidden, BOOLEAN)
    \/ Destroyed

SpecTauri == InitTauri /\ [][NextTauri]_vars

(* The Tauri dock when window.hwnd() is Ok as long as the window is open: *)
(* every behaviour of it is a behaviour of SpecTauri                      *)
NextTauriHwndOk ==
    \/ Setup({TRUE})
    \/ GeometryChanged({TRUE})
    \/ \E hidden \in BOOLEAN : set_dock_hidden(hidden, {TRUE})
    \/ Destroyed

SpecTauriHwndOk == InitTauri /\ [][NextTauriHwndOk]_vars

(* The Tauri dock with its handlers on two threads *)
(* the runtime invokes the command, or delivers Moved / Resized /         *)
(* ScaleFactorChanged, on thread t                                        *)
Invoke(t, h, hidden) ==
    /\ t_pc = "running"
    /\ threads[t].pc = "idle"
    /\ threads' = [threads EXCEPT ![t] =
                      [h |-> h, arg |-> hidden,
                       pc |-> IF h = "set_dock_hidden" THEN "write" ELSE "read",
                       local |-> FALSE]]
    /\ UNCHANGED <<nativeVars, layoutVars, tauriVars, lockVars>>

(* lib.rs:31-34 *)
WriteFlag(t) ==
    /\ threads[t].pc = "write"
    /\ is_hidden' = threads[t].arg
    /\ threads' = [threads EXCEPT ![t].pc = "read"]
    /\ UNCHANGED <<t_pc, monitor, win_size, win_pos, appbar, shell_log,
                   t_taskbar, last_update, before_hide>>
    /\ UNCHANGED <<nativeVars, layoutVars, lockVars>>

(* lib.rs:136-138 *)
ReadFlag(t) ==
    /\ threads[t].pc = "read"
    /\ threads' = [threads EXCEPT ![t].local = is_hidden,
                                  ![t].pc = IF monitor.present THEN "place"
                                            ELSE "done"]
    /\ UNCHANGED <<nativeVars, layoutVars, tauriVars, lockVars>>

(* lib.rs:139-160: set_size and set_position *)
Place(t) ==
    /\ threads[t].pc = "place"
    /\ win_size' = DockSize(monitor)
    /\ win_pos' = DockPos(monitor, threads[t].local)
    /\ threads' = [threads EXCEPT ![t].pc = "release"]
    /\ UNCHANGED <<t_pc, is_hidden, monitor, appbar, shell_log, t_taskbar,
                   last_update, before_hide>>
    /\ UNCHANGED <<nativeVars, layoutVars, lockVars>>

(* lib.rs:164-168 *)
Release(t) ==
    /\ threads[t].pc = "release"
    /\ LET sh == unregister_appbar([appbar |-> appbar, log |-> shell_log])
       IN  appbar' = sh.appbar /\ shell_log' = sh.log
    /\ threads' = [threads EXCEPT ![t].pc = IF threads[t].local THEN "done"
                                            ELSE "register"]
    /\ UNCHANGED <<t_pc, is_hidden, monitor, win_size, win_pos, t_taskbar,
                   last_update, before_hide>>
    /\ UNCHANGED <<nativeVars, layoutVars, lockVars>>

(* lib.rs:168-175 *)
Register(t) ==
    /\ threads[t].pc = "register"
    /\ \E granted \in BOOLEAN :
          LET sh == register_appbar([appbar |-> appbar, log |-> shell_log],
                                    granted, PhysDockHeight(monitor),
                                    monitor.width, monitor.height)
          IN  appbar' = sh.appbar /\ shell_log' = sh.log
    /\ threads' = [threads EXCEPT ![t].pc = "done"]
    /\ UNCHANGED <<t_pc, is_hidden, monitor, win_size, win_pos, t_taskbar,
                   last_update, before_hide>>
    /\ UNCHANGED <<nativeVars, layoutVars, lockVars>>

InitRace == InitTauri

NextRace ==
    \/ Setup({TRUE})
    \/ \E t \in Threads, h \in {"set_dock_hidden", "geometry"}, hidden \in BOOLEAN :
          Invoke(t, h, hidden)
    \/ \E t \in Threads : WriteFlag(t)
    \/ \E t \in Threads : ReadFlag(t)
    \/ \E t \in Threads : Place(t)
    \/ \E t \in Threads : Release(t)
    \/ \E t \in Threads : Register(t)

SpecRace == InitRace /\ [][NextRace]_vars

(* The state lock of either program *)
(* mutex.lock() *)
Lock ==
    /\ AtOp("lock")
    /\ IF state_lock = 0
       THEN state_lock' = Depth /\ Advance /\ UNCHANGED lock_wait
       ELSE lock_wait' = TRUE /\ UNCHANGED <<state_lock, ui_stack>>
    /\ UNCHANGED ui_prog
    /\ UNCHANGED <<nativeVars, layoutVars, tauriVars, raceVars>>

(* the guard goes out of scope *)
Unlock ==
    /\ AtOp("unlock")
    /\ state_lock' = 0
    /\ Advance
    /\ UNCHANGED <<ui_prog, lock_wait>>
    /\ UNCHANGED <<nativeVars, layoutVars, tauriVars, raceVars>>

(* a step that neither touches the lock nor dispatches *)
Work ==
    /\ AtOp("work")
    /\ Advance
    /\ UNCHANGED <<ui_prog, state_lock, lock_wait>>
    /\ UNCHANGED <<nativeVars, layoutVars, tauriVars, raceVars>>

(* the handler enters ShowWindow, set_size, set_position, SHAppBarMessage *)
EnterCall ==
    /\ AtOp("call")
    /\ ui_stack' = [ui_stack EXCEPT ![Depth].in_call = TRUE]
    /\ UNCHANGED <<ui_prog, state_lock, lock_wait>>
    /\ UNCHANGED <<nativeVars, layoutVars, tauriVars, raceVars>>

(* the system sends a message from within the call *)
DispatchSent ==
    /\ ui_stack # <<>> /\ ~lock_wait /\ Top.in_call
    /\ Depth < MaxNesting
    /\ \E h \in SentDuringCall(ui_prog), opt \in BOOLEAN :
          ui_stack' = Append(ui_stack, Frame(h, opt))
    /\ UNCHANGED <<ui_prog, state_lock, lock_wait>>
    /\ UNCHANGED <<nativeVars, layoutVars, tauriVars, raceVars>>

(* the call returns *)
LeaveCall ==
    /\ ui_stack # <<>> /\ ~lock_wait /\ Top.in_call
    /\ Advance
    /\ UNCHANGED <<ui_prog, state_lock, lock_wait>>
    /\ UNCHANGED <<nativeVars, layoutVars, tauriVars, raceVars>>

(* window.rs:384-387, resp. the Tauri runtime: the loop dispatches the next *)
(* message or event; a window procedure sees the taskbar handle that        *)
(* startup stored                                                           *)
Dispatch ==
    /\ Depth = 1 /\ Finished(Top)
    /\ \E h \in Handlers(ui_prog), opt \in BOOLEAN :
          /\ ui_prog = "native" => opt = ui_stack[1].opt
          /\ ui_stack' = Append(ui_stack, Frame(h, opt))
    /\ UNCHANGED <<ui_prog, state_lock, lock_wait>>
    /\ UNCHANGED <<nativeVars, layoutVars, tauriVars, raceVars>>

(* the handler returns; after WM_DESTROY (PostQuitMessage) and Destroyed *)
(* the loop ends                                                         *)
Return ==
    /\ Depth >= 2 /\ ~lock_wait /\ ~Top.in_call /\ Finished(Top)
    /\ ui_stack' = IF Depth = 2 /\ Top.h \in LastHandlers
                   THEN <<>>
                   ELSE SubSeq(ui_stack, 1, Depth - 1)
    /\ UNCHANGED <<ui_prog, state_lock, lock_wait>>
    /\ UNCHANGED <<nativeVars, layoutVars, tauriVars, raceVars>>

InitLock ==
    /\ ui_prog \in {"native", "tauri"}
    /\ \E opt \in BOOLEAN : ui_stack = <<Frame(StartupOf(ui_prog), opt)>>
    /\ state_lock = 0 /\ lock_wait = FALSE
    /\ NativeIdle /\ LayoutIdle /\ TauriIdle /\ RaceIdle

NextLock ==
    \/ Lock
    \/ Unlock
    \/ Work
    \/ EnterCall
    \/ DispatchSent
    \/ LeaveCall
    \/ Dispatch
    \/ Return

SpecLock == InitLock /\ [][NextLock]_vars

-----------------------------------------------------------------------------
(* Properties of the Tauri dock (SpecTauri; C2 and C3 are refuted under *)
(* SpecTauriHwndOk already)                                             *)

IsCall(i, op) == shell_log[i].op = op
Granted(i) == IsCall(i, "ABM_NEW") /\ shell_log[i].ok
Refused(i) == IsCall(i, "ABM_NEW") /\ ~shell_log[i].ok

(* C1: every ABM_NEW is directly preceded by an ABM_REMOVE for the window, *)
(* and at most one registration is live in every reachable state.          *)
C1_ReleaseBeforeRegister ==
    /\ \A i \in 1..Len(shell_log) :
          IsCall(i, "ABM_NEW") => i > 1 /\ IsCall(i - 1, "ABM_REMOVE")
    /\ appbar.live <= 1

(* a registration was granted, released and granted again *)
C1_Witness ==
    /\ appbar.live = 1
    /\ \E i, j \in 1..Len(shell_log) : i < j /\ Granted(i) /\ Granted(j)

(* C2: no registration is live while is_hidden is true. *)
C2_HiddenMeansUnreserved == is_hidden => appbar.live = 0

(* C3: once the window is destroyed the registration is released and the *)
(* taskbar is visible again.                                             *)
C3_TeardownRestores ==
    t_pc = "destroyed" => appbar.live = 0 /\ t_taskbar # "hidden"

(* C4: a refused ABM_NEW is followed by no ABM_SETPOS (the next call, if   *)
(* any, is the ABM_REMOVE of a later event); a refusal leaves the window   *)
(* at the size and position update_dock_position computed, with nothing    *)
(* reserved.                                                               *)
C4_RefusalIsHarmless ==
    /\ \A i \in 1..Len(shell_log) :
          /\ IsCall(i, "ABM_SETPOS") => i > 1 /\ Granted(i - 1)
          /\ Refused(i) /\ i < Len(shell_log) => IsCall(i + 1, "ABM_REMOVE")
    /\ last_update.asked /\ ~last_update.granted =>
          /\ win_size = DockSize(monitor)
          /\ win_pos = DockPos(monitor, FALSE)
          /\ ~is_hidden
          /\ appbar.live = 0

(* a refusal, then a later event whose registration was granted *)
C4_Witness ==
    /\ appbar.live = 1
    /\ \E i, j \in 1..Len(shell_log) :
          /\ i + 1 < j /\ Refused(i) /\ IsCall(i + 1, "ABM_REMOVE")
          /\ Granted(j) /\ j < Len(shell_log) /\ IsCall(j + 1, "ABM_SETPOS")

-----------------------------------------------------------------------------
(* Properties of the native dock (Spec) *)

Slots == 1..Len(icon_visuals)
IconCenter(base_x) == base_x + PX(ICON_SIZE) \div 2

(* the layout solved from the last pointer message alone *)
LayoutOfLastMsg ==
    IF last_msg.kind = "move"
    THEN calc_dock_layout(base_x_positions, PX(last_msg.x), win_width, WIN_HEIGHT, TRUE)
    ELSE calc_dock_layout(base_x_positions, 0, win_width, WIN_HEIGHT, FALSE)

C7_ScaleBoundedMonotone ==
    \A i \in 1..Len(scale_animations) :
        scale_animations[i].set =>
            /\ ONE <= scale_animations[i].v
            /\ scale_animations[i].v <= MAX_SCALE
            /\ last_msg.kind = "move" =>
                  \A x2 \in PointerXs :
                      Abs(PX(x2) - IconCenter(base_x_positions[i]))
                          >= Abs(PX(last_msg.x) - IconCenter(base_x_positions[i]))
                      => /\ MagnifiedScale(base_x_positions[i], PX(x2))
                              <= scale_animations[i].v
                         /\ MagnifiedScale(base_x_positions[i], PX(x2)) >= ONE

(* the pointer is on one icon's centre; another icon is magnified less *)
C7_Witness ==
    \E i, j \in 1..Len(scale_animations) :
        /\ scale_animations[i].set /\ scale_animations[j].set
        /\ scale_animations[i].v = MAX_SCALE
        /\ ONE < scale_animations[j].v
        /\ scale_animations[j].v < MAX_SCALE

-----------------------------------------------------------------------------
(* Properties of the layout solver (SpecLayout) *)

LayN == Len(lay_in.base_positions)

(* C6: without magnification every scale is exactly 1, for every icon *)
(* count and every mouse_x.                                           *)
C6_NoPointerAllOnes ==
    (lay_in.called /\ ~lay_in.magnify) =>
        /\ Len(lay_out.scales) = LayN
        /\ \A i \in 1..LayN : lay_out.scales[i] = ONE

(* magnify = false with the pointer on the first icon's centre *)
C6_Witness ==
    /\ lay_in.called /\ ~lay_in.magnify
    /\ LayN >= 2
    /\ lay_in.mouse_x = IconCenter(lay_in.base_positions[1])
    /\ lay_out.scales[1] = ONE

(* C8: an icon's scale is MAX_SCALE exactly when the pointer is on its   *)
(* base centre and smaller otherwise, and the pointer mirrored about the *)
(* centre gives the same scale.                                          *)
C8_PeakAtCenterSymmetric ==
    (lay_in.called /\ lay_in.magnify) =>
        \A i \in 1..LayN :
            LET c == IconCenter(lay_in.base_positions[i])
            IN  /\ (lay_out.scales[i] = MAX_SCALE) <=> (lay_in.mouse_x = c)
                /\ lay_out.scales[i] <= MAX_SCALE
                /\ calc_dock_layout(lay_in.base_positions, 2 * c - lay_in.mouse_x,
                                    lay_in.win_width, lay_in.win_height,
                                    TRUE).scales[i] = lay_out.scales[i]

(* the pointer is on the second icon's centre; its two neighbours, one *)
(* slot away on either side, get the same smaller scale                *)
C8_Witness ==
    /\ lay_in.called /\ lay_in.magnify /\ LayN >= 3
    /\ lay_in.mouse_x = IconCenter(lay_in.base_positions[2])
    /\ lay_out.scales[2] = MAX_SCALE
    /\ lay_out.scales[1] = lay_out.scales[3]
    /\ ONE < lay_out.scales[1] /\ lay_out.scales[1] < MAX_SCALE

(* C9: icons keep their index order without overlap, and the first icon *)
(* starts at bar_x + BAR_PADDING_H.                                     *)
C9_OrderedNoOverlap ==
    lay_in.called =>
        /\ Len(lay_out.positions) = LayN
        /\ \A i, j \in 1..LayN :
              i < j => lay_out.positions[i].X + lay_out.scales[i] * (2 * ICON_SIZE)
                       <= lay_out.positions[j].X
        /\ LayN >= 1 => lay_out.positions[1].X = lay_out.bar_x + PX(BAR_PADDING_H)

(* a magnified layout of several icons in a window narrower than the bar *)
C9_Witness ==
    /\ lay_in.called /\ lay_in.magnify /\ LayN >= 3
    /\ lay_out.scales[2] > ONE
    /\ lay_out.bar_x < 0
    /\ lay_out.positions[2].X + lay_out.scales[2] * (2 * ICON_SIZE)
          < lay_out.positions[3].X

(* C10: with at least one icon, bar_width is the sum of the scaled icon *)
(* widths plus ICON_SPACING * (count - 1) plus 2 * BAR_PADDING_H, and   *)
(* bar_x is half of window width minus bar_width, unclamped; five icons *)
(* at scale 1 give 304 pixels.                                          *)
C10_BarWidthCentered ==
    (lay_in.called /\ LayN >= 1) =>
        /\ lay_out.bar_width =
              SumSeq([i \in 1..LayN |-> lay_out.scales[i] * (2 * ICON_SIZE)])
              + PX(ICON_SPACING) * (LayN - 1) + 2 * PX(BAR_PADDING_H)
        /\ 2 * lay_out.bar_x = PX(lay_in.win_width) - lay_out.bar_width
        /\ (LayN = 5 /\ ~lay_in.magnify) => lay_out.bar_width = PX(304)

(* five icons at scale 1 in a window of 290 pixels: bar_x is negative *)
C10_Witness ==
    /\ lay_in.called /\ ~lay_in.magnify /\ LayN = 5
    /\ lay_out.bar_width = PX(304)
    /\ lay_out.bar_x < 0

-----------------------------------------------------------------------------
(* The dock without icons *)

(* C11: with zero icons the bar is exactly 2 * BAR_PADDING_H = 24 pixels *)
(* wide, both as calc_dock_layout returns it and as startup computes it  *)
(* for an empty icon set.                                                *)
C11_EmptyBarIsPadding ==
    (n_pc # "init" /\ Len(icons) = 0) =>
        /\ bg_bar_visual.width = 2 * PX(BAR_PADDING_H)
        /\ calc_dock_layout(<<>>, 0, win_width, WIN_HEIGHT, FALSE).bar_width
              = 2 * PX(BAR_PADDING_H)

-----------------------------------------------------------------------------
(* Vertical placement (SpecLayout) *)

(* C12: in every layout each icon's top plus its scaled height is the      *)
(* bar's top plus BAR_HEIGHT minus BAR_PADDING_V, and bar_y is the window  *)
(* height minus BAR_HEIGHT minus BAR_BOTTOM_MARGIN, the same for every     *)
(* pointer position with and without magnification.                        *)
C12_BottomAnchored ==
    lay_in.called =>
        /\ lay_out.bar_y = PX(lay_in.win_height) - PX(BAR_HEIGHT) - PX(BAR_BOTTOM_MARGIN)
        /\ \A i \in 1..LayN :
              lay_out.positions[i].Y + lay_out.scales[i] * (2 * ICON_SIZE)
                  = lay_out.bar_y + PX(BAR_HEIGHT) - PX(BAR_PADDING_V)
        /\ \A x \in PointerXs, magnify \in BOOLEAN :
              calc_dock_layout(lay_in.base_positions, PX(x), lay_in.win_width,
                               lay_in.win_height, magnify).bar_y = lay_out.bar_y

(* two icons magnified differently: their tops differ, their bottoms do not *)
C12_Witness ==
    /\ lay_in.called /\ lay_in.magnify /\ LayN >= 2
    /\ lay_out.scales[1] > lay_out.scales[2]
    /\ lay_out.positions[1].Y < lay_out.positions[2].Y
    /\ lay_out.positions[1].Y + lay_out.scales[1] * (2 * ICON_SIZE)
          = lay_out.positions[2].Y + lay_out.scales[2] * (2 * ICON_SIZE)

-----------------------------------------------------------------------------
(* Animation targets (Spec) *)

(* C13: every icon visual has one scale animation and one offset animation *)
(* of its own; once a pointer message was handled, exactly one animation   *)
(* is bound to its Scale and one to its Offset, each with the target of    *)
(* the most recent layout, whatever number of messages came before; before *)
(* the first message nothing is bound.                                     *)
C13_LastWriteWins ==
    /\ Len(scale_animations) = Len(icon_visuals)
    /\ Len(offset_animations) = Len(icon_visuals)
    /\ Len(visual_animations) = Len(icon_visuals)
    /\ \A i \in Slots :
          IF last_msg.kind = "none"
          THEN visual_animations[i] = NoAnimation
          ELSE /\ visual_animations[i].Scale = <<LayoutOfLastMsg.scales[i]>>
               /\ visual_animations[i].Offset = <<LayoutOfLastMsg.positions[i]>>
               /\ scale_animations[i].v = visual_animations[i].Scale[1]

(* WM_MOUSELEAVE after a magnifying WM_MOUSEMOVE: the one animation bound *)
(* to each Scale has the target 1, the magnified target is gone           *)
C13_Witness ==
    /\ last_msg.kind = "leave"
    /\ Len(icon_visuals) >= 2
    /\ \A i \in Slots :
          /\ visual_animations[i].Scale = <<ONE>>
          /\ Len(visual_animations[i].Offset) = 1

-----------------------------------------------------------------------------
(* Geometry changes and hiding (SpecTauriHwndOk) *)

(* C14: a screen-geometry event leaves is_hidden as it was, gives the      *)
(* window the size and position of the monitor it is now on, and re-issues *)
(* the reservation: an ABM_REMOVE, then an ABM_NEW exactly when the dock   *)
(* is not hidden.                                                          *)
C14_GeometryChangeReissues ==
    [][GeometryChanged({TRUE}) =>
          /\ is_hidden' = is_hidden
          /\ monitor'.present =>
                /\ win_size' = DockSize(monitor')
                /\ win_pos' = DockPos(monitor', is_hidden)
          /\ Len(shell_log') > Len(shell_log)
          /\ shell_log'[Len(shell_log) + 1].op = "ABM_REMOVE"
          /\ ~is_hidden <=> /\ Len(shell_log') > Len(shell_log) + 1
                            /\ shell_log'[Len(shell_log) + 2].op = "ABM_NEW"]_vars

-----------------------------------------------------------------------------
(* Clicks (SpecClick) *)

(* C16: a left button release inside an icon's rectangle of the layout *)
(* solved last makes a launch request for that icon, whatever the      *)
(* animation and layout state.                                         *)
C16_ClickLaunches ==
    last_click # 0 =>
        /\ launch_requests # <<>>
        /\ launch_requests[Len(launch_requests)] = last_click

-----------------------------------------------------------------------------
(* Icons without a bitmap (Spec) *)

(* the indices of the icons whose bitmap was found, in order: the icon *)
(* of each slot                                                        *)
FoundIcons(ics) == SelectSeq([k \in 1..Len(ics) |-> k], LAMBDA k : ics[k])

(* the bar width and the left edge of every icon of a dock with as many *)
(* icons, all of them found, after the same last pointer message        *)
AllFoundLayout ==
    LET g == StartupGeometry([k \in 1..Len(icons) |-> TRUE], win_width)
        l == IF last_msg.kind = "move"
             THEN calc_dock_layout(g.base, PX(last_msg.x), win_width, WIN_HEIGHT, TRUE)
             ELSE calc_dock_layout(g.base, 0, win_width, WIN_HEIGHT, FALSE)
    IN  IF last_msg.kind = "none"
        THEN [bar_width |-> g.bar.width,
              X |-> [k \in 1..Len(icons) |-> g.offsets[k].X]]
        ELSE [bar_width |-> l.bar_width,
              X |-> [k \in 1..Len(icons) |-> l.positions[k].X]]

(* C17: an icon without a bitmap keeps its slot: at startup and after    *)
(* every pointer message the bar is as wide, and every icon that was     *)
(* found lies where it would, as if all bitmaps had been found.          *)
C17_MissingBitmapKeepsSlot ==
    (n_pc # "init" /\ (last_msg.kind = "none" \/ Len(icon_visuals) >= 1)) =>
        /\ bg_bar_visual.width = AllFoundLayout.bar_width
        /\ \A j \in Slots : SlotLeft(j) = AllFoundLayout.X[FoundIcons(icons)[j]]

(* C18: once startup is done, base_x_positions is ascending with        *)
(* consecutive entries exactly ICON_SLOT apart, for every icon set.     *)
C18_BaseContiguous ==
    n_pc # "init" =>
        \A j \in 1..(Len(base_x_positions) - 1) :
            base_x_positions[j + 1] - base_x_positions[j] = PX(ICON_SLOT)

(* no message handled after startup changes base_x_positions *)
C18_BaseNeverModified ==
    [][n_pc # "init" => base_x_positions' = base_x_positions]_vars

-----------------------------------------------------------------------------
(* Leave tracking (Spec) *)

(* the layout of the idle dock *)
IdleLayout == calc_dock_layout(base_x_positions, 0, win_width, WIN_HEIGHT, FALSE)

(* C19: after every WM_MOUSEMOVE, with or without icon visuals, a leave   *)
(* notification is armed; whenever some scale target is above 1 one is    *)
(* armed; and once WM_MOUSELEAVE was handled the targets are those of the *)
(* idle layout until the next WM_MOUSEMOVE.                               *)
C19_LeaveTrackingArmed ==
    /\ last_msg.kind = "move" => tme_armed
    /\ (\E i \in 1..Len(scale_animations) :
           scale_animations[i].set /\ scale_animations[i].v > ONE) => tme_armed
    /\ last_msg.kind = "leave" =>
          \A i \in 1..Len(scale_animations) :
              /\ scale_animations[i] = [set |-> TRUE, v |-> ONE]
              /\ offset_animations[i].X = IdleLayout.positions[i].X
              /\ offset_animations[i].Y = IdleLayout.positions[i].Y

(* the pointer is over the dock, an icon is magnified and the leave *)
(* notification is armed                                            *)
C19_Witness ==
    /\ last_msg.kind = "move" /\ tme_armed /\ ~quit_posted
    /\ \E i \in 1..Len(scale_animations) : scale_animations[i].v > ONE

-----------------------------------------------------------------------------
(* The state lock (SpecLock) *)

(* C20: no handler is inside a call that makes the system dispatch to the *)
(* window while it holds the state lock, and no activation waits for a    *)
(* lock that an activation below it on the same thread holds.             *)
C20_NoLockAcrossDispatch ==
    /\ \A d \in 1..Len(ui_stack) : ui_stack[d].in_call => state_lock # d
    /\ ~lock_wait

-----------------------------------------------------------------------------
(* WM_MOUSELEAVE against startup (Spec) *)

(* C21: once WM_MOUSELEAVE was the last pointer message, every icon      *)
(* visual's offset target is its base_x_positions entry and the icon y   *)
(* of startup, and the bar has the width and x startup gave it, for      *)
(* every icon set, with or without missing bitmaps.                      *)
C21_LeaveRestoresStartup ==
    last_msg.kind = "leave" =>
        LET g == StartupGeometry(icons, win_width)
        IN  /\ \A i \in Slots :
                  offset_animations[i].set =>
                      /\ offset_animations[i].X = base_x_positions[i]
                      /\ offset_animations[i].Y = g.offsets[i].Y
            /\ bg_bar_visual.width = g.bar.width
            /\ bg_bar_visual.X = g.bar.X

-----------------------------------------------------------------------------
(* The reserved rectangle (SpecTauriHwndOk) *)

(* the rectangle of the window as update_dock_position placed and sized it *)
WindowRect ==
    [left |-> win_pos.x, top |-> win_pos.y,
     right |-> win_pos.x + win_size.width,
     bottom |-> win_pos.y + win_size.height]

(* C22: when the dock is shown and the update just made registered a   *)
(* reservation, the rectangle sent with ABM_SETPOS is the rectangle of *)
(* the window, on every monitor.                                       *)
C22_ReservedRectIsWindowRect ==
    (~is_hidden /\ last_update.granted /\ appbar.live = 1) =>
        appbar.rc = WindowRect

-----------------------------------------------------------------------------
(* Icons on screen (Spec) *)

(* C23: with the scale and offset targets the handlers set, the bottom   *)
(* edge of every icon as the compositor draws it is on the line bar_y +  *)
(* BAR_HEIGHT - BAR_PADDING_V, for every pointer position.               *)
C23_BottomEdgeOnBarLine ==
    \A i \in Slots :
        (scale_animations[i].set /\ offset_animations[i].set) =>
            OnScreenY(offset_animations[i].Y, scale_animations[i].v, ICON_SIZE)
                = bg_bar_visual.Y + PX(BAR_HEIGHT) - PX(BAR_PADDING_V)

(* C24: when two handlers (two set_dock_hidden, or a set_dock_hidden and a *)
(* geometry-change handler) run on different threads with their steps      *)
(* interleaved, then once both have finished no reservation is live while  *)
(* is_hidden is true, and one is live when is_hidden is false and every    *)
(* registration the handlers asked for was granted.                        *)
BothFinished == \A t \in Threads : threads[t].pc = "done"
C24_ReservationFollowsFinalFlag ==
    (BothFinished /\ monitor.present) =>
        /\ is_hidden => appbar.live = 0
        /\ (~is_hidden /\ \A k \in 1..Len(shell_log) : ~Refused(k))
               => appbar.live >= 1

(* C25: the WM_DESTROY arm posts the quit request whatever STATE.get(),    *)
(* lock() and state.taskbar_hwnd gave, and once the window is destroyed    *)
(* the message loop of run eventually exits and run returns.               *)
C25_DestroyEndsRun ==
    /\ [](window_destroyed => quit_posted)
    /\ (window_destroyed ~> n_pc = "quit")
(* run has returned although the taskbar handle was recorded and the       *)
(* handler could not reach it (STATE.get() gave None, or lock() gave Err)  *)
C25_Witness ==
    /\ n_pc = "quit" /\ window_destroyed
    /\ taskbar_hwnd /\ n_taskbar = "hidden"

(* C26: when current_monitor() gives no monitor, update_dock_position      *)
(* leaves the window's size and position, the reservation and the list of  *)
(* shell requests as they were, in setup, in a geometry-change handler and *)
(* in set_dock_hidden; set_dock_hidden(hidden) still stores hidden in      *)
(* is_hidden and the program keeps running.                                *)
UpdateFrame == UNCHANGED <<win_size, win_pos, appbar, shell_log>>
C26_NoMonitorNoChange ==
    [][/\ \A hidden \in BOOLEAN :
             (set_dock_hidden(hidden, BOOLEAN) /\ ~monitor.present) =>
                 (UpdateFrame /\ is_hidden' = hidden /\ t_pc' = "running")
       /\ ((Setup(BOOLEAN) \/ GeometryChanged(BOOLEAN)) /\ ~monitor'.present) =>
                 (UpdateFrame /\ is_hidden' = is_hidden)]_vars
(* set_dock_hidden(true) has run with no monitor while a reservation was   *)
(* live: the flag is stored and the reservation is as it was               *)
C26_Witness ==
    /\ t_pc = "running" /\ ~monitor.present
    /\ ~last_update.mon.present /\ last_update.hidden
    /\ is_hidden /\ appbar.live = 1
=============================================================================
